---- MODULE Spec2Model ----
(***************************************************************************)
(* Betting-round state machine of the Texas Hold'em simulator              *)
(* (src/src/game.rs), driven the way src/src/app.rs and src/src/main.rs    *)
(* drive it: deal_cards, then perform_action followed by next_player for   *)
(* the current player, and determine_winner once the round is Showdown.    *)
(***************************************************************************)
EXTENDS Integers, Sequences, FiniteSets, TLC

\* ---------------------------------------------------------------- bounds
MaxPlayers == 3
MaxHands == 2

\* ------------------------------------------------------ program constants
MinBet == 10
Ante == 1
DeckSize == 52
\* stands for u32::MAX (4294967295), the largest amount Raise(u32) can carry;
\* the operators below give it the arithmetic of that value
U32Max == -1

StartingChipsSet == {12, 30}
RaiseAmounts == {3, 10, 20, U32Max}

None == -1

VARIABLES
  n,                                \* players.len()
  chips, current_bet, folded,       \* Player fields, indexed by seat
  pot, current_player_idx, round,
  dealer_idx, small_blind_idx, big_blind_idx,
  last_action_count, bb_has_acted_preflop,
  players_acted_this_round, last_aggressor,
  player_contributions_this_round,
  community_cards, deck,            \* numbers of cards held
  pc,                               \* position of the driver
  hands,                            \* hands dealt so far
  hand_start_total,                 \* sum of chips when deal_cards was entered
  folds_this_round,                 \* a Fold was performed in the current round
  bb_acted,                         \* the big blind performed an action in PreFlop
  pot_at_round_start,               \* pot when the per-round contributions were last zeroed
  returned,                         \* (winner_idx, winnings) returned by determine_winner
  shown,                            \* what the showdown compares: hole-card ranks and
                                    \* evaluated hand ranks of the players, once revealed
  last_amount,                      \* amount of the requested Raise
  last_total,                       \* total bet returned with the action (None for a fold)
  cards,                            \* the deck against the cards dealt: copies of dealt
                                    \* cards in the deck, a card dealt twice, deck rebuilt
  bot,                              \* a get_bot_action call: the bot's difficulty, the
                                    \* advisory outcome, the policy's string, the result
  last_request, last_actual         \* action requested of / returned by the
                                    \* perform_action call the driver is handling

gameVars == <<chips, current_bet, folded, pot, current_player_idx, round,
              dealer_idx, small_blind_idx, big_blind_idx, last_action_count,
              bb_has_acted_preflop, players_acted_this_round, last_aggressor,
              player_contributions_this_round, community_cards, deck>>

vars == <<n, gameVars, pc, hands, hand_start_total, folds_this_round,
          bb_acted, pot_at_round_start, returned, shown, last_amount,
          last_total, bot, cards,
          last_request, last_actual>>

Seats == 0 .. (n - 1)

\* the cards stay face down while the betting is modelled
Hidden == [hole |-> <<>>, rank |-> <<>>]

\* no second word in a string, and a second word that is not a number
NoArg == -1
BadArg == -2

\* no get_bot_action call is in progress
NoBot ==
  [difficulty |-> "Medium", advisory |-> <<"no_key", <<"", NoArg>>>>,
   policy |-> <<"", NoArg>>, result |-> <<"none", "none", 0>>]

\* a deck of distinct cards none of which is in a hand or on the board
NoCopies == [copies |-> 0, dup |-> FALSE, rebuilt |-> FALSE]

Min(a, b) == IF a < b THEN a ELSE b

\* u32::saturating_sub
SatSub(a, b) == IF a > b THEN a - b ELSE 0

RECURSIVE SumOver(_, _)
SumOver(f, S) ==
  IF S = {} THEN 0
  ELSE LET x == CHOOSE y \in S : TRUE IN f[x] + SumOver(f, S \ {x})

RECURSIVE MaxOver(_, _)
MaxOver(f, S) ==
  IF S = {} THEN 0
  ELSE LET x == CHOOSE y \in S : TRUE
           m == MaxOver(f, S \ {x})
       IN IF f[x] > m THEN f[x] ELSE m

Contains(s, x) == \E k \in 1 .. Len(s) : s[k] = x

\* players.iter().map(|p| p.current_bet).max().unwrap_or(0)
highest_bet == MaxOver(current_bet, Seats)

\* !p.folded && p.chips > 0
IsActive(i) == ~folded[i] /\ chips[i] > 0

active_players == Cardinality({i \in Seats : IsActive(i)})

\* ------------------------------------------------------------------ Init
Init ==
  /\ n \in 2 .. MaxPlayers
  /\ \E sc \in StartingChipsSet : chips = [i \in Seats |-> sc]
  /\ current_bet = [i \in Seats |-> 0]
  /\ folded = [i \in Seats |-> FALSE]
  /\ pot = 0
  /\ current_player_idx = 0
  /\ round = "PreFlop"
  /\ dealer_idx \in Seats
  /\ small_blind_idx = (dealer_idx + 1) % n
  /\ big_blind_idx = (small_blind_idx + 1) % n
  /\ last_action_count = 0
  /\ bb_has_acted_preflop = FALSE
  /\ players_acted_this_round = <<>>
  /\ last_aggressor = None
  /\ player_contributions_this_round = [i \in Seats |-> 0]
  /\ community_cards = 0
  /\ deck = DeckSize
  /\ pc = "idle"
  /\ hands = 0
  /\ hand_start_total = SumOver(chips, Seats)
  /\ folds_this_round = FALSE
  /\ bb_acted = FALSE
  /\ pot_at_round_start = 0
  /\ returned = <<None, 0>>
  /\ shown = Hidden
  /\ last_amount = 0
  /\ last_total = None
  /\ bot = NoBot
  /\ cards = NoCopies
  /\ last_request = "none"
  /\ last_actual = "none"

\* ------------------------------------------------------------ deal_cards
\* chips after the ante, the small blind and the big blind are taken
\* with saturating_sub, in that order
ChipsAfterPosting(sb, bb) ==
  LET afterAnte == [i \in Seats |-> SatSub(chips[i], Ante)]
      afterSb == [afterAnte EXCEPT ![sb] = SatSub(afterAnte[sb], MinBet \div 2)]
  IN [afterSb EXCEPT ![bb] = SatSub(afterSb[bb], MinBet)]

BetsAfterPosting(sb, bb) ==
  LET z == [i \in Seats |-> 0]
      s == [z EXCEPT ![sb] = MinBet \div 2]
  IN [s EXCEPT ![bb] = MinBet]

\* variant: the contributions record what each player could actually pay
ContributionsActuallyPaid(sb, bb) ==
  [i \in Seats |-> chips[i] - ChipsAfterPosting(sb, bb)[i]]

ContributionsAfterPosting(sb, bb) ==
  LET a == [i \in Seats |-> Ante]
      s == [a EXCEPT ![sb] = a[sb] + MinBet \div 2]
  IN [s EXCEPT ![bb] = s[bb] + MinBet]

\* variant: the antes are taken from the players but do not reach the pot
PotAfterPostingNoAnte == MinBet \div 2 + MinBet

PotAfterPosting == n * Ante + MinBet \div 2 + MinBet

\* deck.len() after two cards were popped for every player
DeckAfterDeal == SatSub(DeckSize, 2 * n)

\* key 'd' replaces a deck of fewer than 35 cards by a full shuffled deck,
\* which holds a copy of every hole card just dealt
DeckAfterKeyD == IF DeckAfterDeal < 35 THEN DeckSize ELSE DeckAfterDeal

CardsAfterKeyD ==
  IF DeckAfterDeal < 35
  THEN [copies |-> DeckSize - DeckAfterDeal, dup |-> FALSE, rebuilt |-> TRUE]
  ELSE NoCopies

\* what deal_cards does to everything but the deck, from whatever state it is
\* called in
\* variant: the dealer button stays where it is
dealer_not_rotated == dealer_idx

\* dealer_idx after the rotation for the next hand
dealer_rotated == (dealer_idx + 1) % n

deal_cards_reset ==
  /\ hands < MaxHands
  /\ LET d == dealer_rotated
         sb == (d + 1) % n
         bb == (sb + 1) % n
     IN /\ dealer_idx' = d
        /\ small_blind_idx' = sb
        /\ big_blind_idx' = bb
        /\ chips' = ChipsAfterPosting(sb, bb)
        /\ current_bet' = BetsAfterPosting(sb, bb)
        /\ player_contributions_this_round' = ContributionsAfterPosting(sb, bb)
        /\ current_player_idx' = (bb + 1) % n
  /\ pot' = PotAfterPosting
  /\ folded' = [i \in Seats |-> FALSE]
  /\ last_action_count' = 0
  /\ bb_has_acted_preflop' = FALSE
  /\ players_acted_this_round' = <<>>
  /\ last_aggressor' = None
  /\ community_cards' = 0
  /\ round' = "PreFlop"
  /\ pc' = "act"
  /\ hands' = hands + 1
  /\ hand_start_total' = SumOver(chips, Seats)
  /\ folds_this_round' = FALSE
  /\ bb_acted' = FALSE
  /\ pot_at_round_start' = 0
  /\ returned' = <<None, 0>>
  /\ last_amount' = 0
  /\ last_total' = None
  /\ bot' = bot
  /\ last_request' = "none"
  /\ last_actual' = "none"
  /\ UNCHANGED <<n, shown>>

\* Game::deal_cards: a fresh shuffled deck, two cards to every player
deal_cards == deal_cards_reset /\ deck' = DeckAfterDeal /\ cards' = NoCopies

\* the handler of key 'd': deal_cards, then the check of the deck
on_key_d ==
  deal_cards_reset /\ deck' = DeckAfterKeyD /\ cards' = CardsAfterKeyD

\* key 'd' once the previous hand is resolved (or before the first hand)
DealCards == pc = "idle" /\ on_key_d

\* key 'd' while a hand is in progress and a player is awaited
DealCardsMidHand == pc = "act" /\ on_key_d

\* -------------------------------------------------------- perform_action
\* highest_bet.saturating_sub(player_current_bet)
call_amount(i) == SatSub(highest_bet, current_bet[i])

\* call_amount.min(self.players[current_player_idx].chips)
actual_call(i) == Min(call_amount(i), chips[i])

\* u32 `<` and min with one operand possibly u32::MAX
LessU32(a, b) ==
  IF a = U32Max THEN FALSE ELSE IF b = U32Max THEN TRUE ELSE a < b

MinU32(a, b) == IF LessU32(a, b) THEN a ELSE b

\* a + amount modulo 2^32, for a stack-sized a
WrappingAdd(a, amount) ==
  IF amount = U32Max THEN (IF a = 0 THEN U32Max ELSE a - 1) ELSE a + amount

\* variant: the opening bet is not capped by the player's chips
actual_bet_uncapped(i, amount) == amount

\* amount.min(self.players[current_player_idx].chips)
actual_bet(i, amount) == MinU32(amount, chips[i])

\* player_current_bet + amount, in u32 arithmetic (release build: wraps)
target_bet(i, amount) == WrappingAdd(current_bet[i], amount)

\* the same addition overflows u32 (debug build: panics)
TargetOverflows(i, amount) == amount = U32Max /\ current_bet[i] >= 1

\* target_bet.saturating_sub(player_current_bet).min(chips); a target of
\* u32::MAX is reached from a current bet of 0 only and exceeds every stack
actual_raise(i, amount) ==
  IF target_bet(i, amount) = U32Max THEN chips[i]
  ELSE Min(SatSub(target_bet(i, amount), current_bet[i]), chips[i])

\* variant: the conversion to a call still records the player as aggressor
CallOutcomeReopens(i) ==
  [actual |-> "Call", asked |-> call_amount(i), paid |-> actual_call(i),
   bet |-> current_bet[i] + actual_call(i), aggressor |-> TRUE]

CallOutcome(i) ==
  [actual |-> "Call", asked |-> call_amount(i), paid |-> actual_call(i),
   bet |-> current_bet[i] + actual_call(i), aggressor |-> FALSE]

\* variant: a check records the player as aggressor
CheckOutcomeReopens(i) ==
  [actual |-> "Check", asked |-> 0, paid |-> 0,
   bet |-> current_bet[i], aggressor |-> TRUE]

CheckOutcome(i) ==
  [actual |-> "Check", asked |-> 0, paid |-> 0,
   bet |-> current_bet[i], aggressor |-> FALSE]

\* variant: folding takes the player's bet off the table
FoldOutcomeClearsBet(i) ==
  [actual |-> "Fold", asked |-> 0, paid |-> 0, bet |-> 0,
   aggressor |-> FALSE]

FoldOutcome(i) ==
  [actual |-> "Fold", asked |-> 0, paid |-> 0, bet |-> current_bet[i],
   aggressor |-> FALSE]

\* the match on the requested action: what is actually performed
Outcome(i, req, amount) ==
  CASE req = "Fold" -> FoldOutcome(i)
    [] req = "Call" ->
         IF highest_bet <= current_bet[i] THEN CheckOutcome(i) ELSE CallOutcome(i)
    [] req = "Check" ->
         IF highest_bet > current_bet[i] THEN CallOutcome(i) ELSE CheckOutcome(i)
    [] req = "Raise" ->
         IF highest_bet = 0
         THEN IF LessU32(actual_bet(i, amount), MinBet)
              THEN CheckOutcome(i)
              ELSE [actual |-> "Raise", asked |-> amount,
                    paid |-> actual_bet(i, amount),
                    bet |-> actual_bet(i, amount), aggressor |-> TRUE]
         ELSE IF LessU32(target_bet(i, amount), highest_bet + MinBet)
              THEN IF highest_bet > current_bet[i]
                   THEN CallOutcome(i) ELSE CheckOutcome(i)
              ELSE [actual |-> "Raise", asked |-> amount,
                    paid |-> actual_raise(i, amount),
                    bet |-> current_bet[i] + actual_raise(i, amount),
                    aggressor |-> TRUE]

\* variant: the amount moved is returned in place of the total bet
returned_amount_paid(o) == IF o.actual = "Fold" THEN None ELSE o.paid

\* the second component of the value perform_action returns
returned_total(o) == IF o.actual = "Fold" THEN None ELSE o.bet

\* what the branch subtracts from the player's chips
chip_decrease(o) == o.paid

\* variant: the pot receives the amount owed or requested, not the capped one
pot_increase_asked(o) == o.asked

\* what the branch adds to the pot
pot_increase(o) == o.paid

\* variant: a raise keeps the list of players who acted
ActedAfterKeeps(i, o) ==
  IF Contains(players_acted_this_round, i)
  THEN players_acted_this_round
  ELSE Append(players_acted_this_round, i)

\* players_acted_this_round after the action
ActedAfter(i, o) ==
  IF o.aggressor THEN <<i>>
  ELSE IF Contains(players_acted_this_round, i)
       THEN players_acted_this_round
       ELSE Append(players_acted_this_round, i)

Requests ==
  {<<"Fold", 0>>, <<"Check", 0>>, <<"Call", 0>>} \cup
  {<<"Raise", a>> : a \in RaiseAmounts}

\* perform_action entered with the counter at count
PerformActionAt(count, req, amount) ==
  /\ pc = "act"
  /\ LET i == current_player_idx
         o == Outcome(i, req, amount)
     IN /\ chips' = [chips EXCEPT ![i] = chips[i] - chip_decrease(o)]
        /\ current_bet' = [current_bet EXCEPT ![i] = o.bet]
        /\ pot' = pot + pot_increase(o)
        /\ player_contributions_this_round' =
             [player_contributions_this_round EXCEPT ![i] = @ + o.paid]
        /\ folded' = [folded EXCEPT ![i] = (@ \/ o.actual = "Fold")]
        /\ last_aggressor' = IF o.aggressor THEN i ELSE last_aggressor
        /\ players_acted_this_round' = ActedAfter(i, o)
        /\ last_actual' = o.actual
        /\ last_total' = returned_total(o)
        /\ bot' = bot
        /\ cards' = cards
        /\ folds_this_round' = (folds_this_round \/ o.actual = "Fold")
        /\ bb_acted' = (bb_acted \/ (round = "PreFlop" /\ i = big_blind_idx))
  /\ last_action_count' = count + 1
  /\ last_amount' = amount
  /\ last_request' = req
  /\ pc' = "advance"
  /\ UNCHANGED <<n, round, current_player_idx, dealer_idx, small_blind_idx,
                 big_blind_idx, bb_has_acted_preflop, community_cards, deck,
                 hands, hand_start_total, pot_at_round_start, returned, shown>>

\* variant: the call leaves the counter where it found it
PerformActionUncounted(req, amount) ==
  PerformActionAt(last_action_count - 1, req, amount)

PerformAction(req, amount) == PerformActionAt(last_action_count, req, amount)

\* debug build: Raise(amount) facing a bet with player_current_bet + amount
\* beyond u32 panics after the counter and the acted list were updated
PerformActionPanic(amount) ==
  /\ pc = "act"
  /\ highest_bet # 0
  /\ TargetOverflows(current_player_idx, amount)
  /\ last_action_count' = last_action_count + 1
  /\ players_acted_this_round' =
       IF Contains(players_acted_this_round, current_player_idx)
       THEN players_acted_this_round
       ELSE Append(players_acted_this_round, current_player_idx)
  /\ last_amount' = amount
  /\ last_request' = "Raise"
  /\ last_actual' = "panic"
  /\ last_total' = None
  /\ bot' = bot
  /\ cards' = cards
  /\ pc' = "panicked"
  /\ UNCHANGED <<n, chips, current_bet, folded, pot, current_player_idx, round,
                 dealer_idx, small_blind_idx, big_blind_idx,
                 bb_has_acted_preflop, last_aggressor,
                 player_contributions_this_round, community_cards, deck,
                 hands, hand_start_total, folds_this_round, bb_acted,
                 pot_at_round_start, returned, shown>>

\* ------------------------------------------------ find_next_active_player
\* variant: the search starts at current_idx itself
find_next_active_player_inclusive(current_idx) ==
  LET steps == {k \in 0 .. (n - 1) : IsActive((current_idx + k) % n)}
  IN IF steps = {} THEN current_idx
     ELSE (current_idx + CHOOSE k \in steps : \A m \in steps : k <= m) % n

\* the first seat after current_idx, in seat order, that is not folded and
\* has chips; current_idx itself when the whole circle holds none
find_next_active_player(current_idx) ==
  LET steps == {k \in 1 .. n : IsActive((current_idx + k) % n)}
  IN IF steps = {} THEN current_idx
     ELSE (current_idx + CHOOSE k \in steps : \A m \in steps : k <= m) % n

\* ------------------------------------------------------------ next_round
\* variant: the Turn is followed by the Showdown, the River is never played
NextRoundOfSkipsRiver(r) ==
  CASE r = "PreFlop" -> "Flop"
    [] r = "Flop" -> "Turn"
    [] OTHER -> "Showdown"

NextRoundOf(r) ==
  CASE r = "PreFlop" -> "Flop"
    [] r = "Flop" -> "Turn"
    [] r = "Turn" -> "River"
    [] OTHER -> "Showdown"

\* variant: next_round deals from whatever the deck holds
DeckAfterNoGuard == deck

\* deck.len() after the refill guard at the top of next_round
DeckAfterGuard == IF deck < 5 THEN DeckSize ELSE deck

\* number of cards the match on the new round pops into community_cards,
\* and the number of community cards kept from before
CardsKept(r) ==
  CASE r = "Flop" -> 0
    [] r = "Turn" -> IF community_cards < 3 THEN 0 ELSE community_cards
    [] OTHER -> community_cards

\* variant: entering the River only the missing cards are popped, the river
\* card itself is not
CardsWantedNoRiverCard(r) ==
  CASE r = "Flop" -> 3
    [] r = "Turn" -> IF community_cards < 3 THEN 4 ELSE 1
    [] r = "River" -> IF community_cards < 4 THEN 4 - community_cards ELSE 0
    [] OTHER -> IF community_cards < 5 THEN 5 - community_cards ELSE 0

CardsWanted(r) ==
  CASE r = "Flop" -> 3
    [] r = "Turn" -> IF community_cards < 3 THEN 4 ELSE 1
    [] r = "River" ->
         IF community_cards < 4 THEN (4 - community_cards) + 1 ELSE 1
    [] OTHER -> IF community_cards < 5 THEN 5 - community_cards ELSE 0

CardsDealt(r) == Min(CardsWanted(r), DeckAfterGuard)

\* the cards record after `kept` cards stay on the board and `dealt` cards are
\* popped from a deck of `from` cards, rebuilt just before or not: a rebuilt
\* deck holds a copy of every card in a hand or on the board; the copies of
\* cards taken off the board stop counting; every popped card is a copy or a
\* card not dealt before, as the shuffle has it
CardsAfter(rec, board, kept, dealt, from, rebuilds) ==
  LET out == (DeckSize - DeckAfterDeal) + board
      before == IF rebuilds THEN out ELSE rec.copies
      cleared == board - kept
      lowest == IF before > cleared THEN before - cleared ELSE 0
  IN {[copies |-> c - j, dup |-> (rec.dup \/ j > 0),
       rebuilt |-> (rec.rebuilt \/ rebuilds)] :
        <<c, j>> \in {<<c, j>> \in (lowest .. before) \X (0 .. dealt) :
                        j <= c /\ dealt - j <= from - c}}

\* the same from the current record and board
CardsAfterDealing(kept, dealt, from, rebuilds) ==
  CardsAfter(cards, community_cards, kept, dealt, from, rebuilds)

\* the part of next_round that runs when the round is not Showdown; cur is
\* current_player_idx when it is entered
NextRound(cur) ==
  LET r == NextRoundOf(round)
  IN /\ round' = r
     /\ current_bet' = [i \in Seats |-> 0]
     /\ community_cards' = CardsKept(r) + CardsDealt(r)
     /\ deck' = DeckAfterGuard - CardsDealt(r)
     /\ cards' \in CardsAfterDealing(CardsKept(r), CardsDealt(r),
                                     DeckAfterGuard, deck < 5)
     /\ last_action_count' = 0
     /\ players_acted_this_round' = <<>>
     /\ last_aggressor' = None
     /\ player_contributions_this_round' = [i \in Seats |-> 0]
     /\ current_player_idx' =
          IF r # "Showdown"
          THEN find_next_active_player(small_blind_idx % n)
          ELSE cur
     /\ folds_this_round' = FALSE
     /\ pot_at_round_start' = pot

\* ----------------------------------------------------------- next_player
bets_matched ==
  \A i \in Seats : ~folded[i] => (current_bet[i] = highest_bet \/ chips[i] = 0)

\* variant: the valve opens only once the counter exceeds the ceiling
force_advancement_exceeds == last_action_count > active_players * 3

\* variant: the ceiling is the number of active players, not three times it
force_advancement_count == last_action_count >= active_players

force_advancement == last_action_count >= active_players * 3

bb_rule_satisfied ==
  IF round = "PreFlop"
  THEN bb_has_acted_preflop \/ folded[big_blind_idx]
  ELSE TRUE

\* the while loop of all_acted_after_aggressor from seat idx on; seen holds
\* the seats the loop has already tested: meeting one again means the loop
\* never leaves
RECURSIVE AllActedScan(_, _)
AllActedScan(idx, seen) ==
  IF idx = last_aggressor THEN "yes"
  ELSE IF ~Contains(players_acted_this_round, idx) /\ IsActive(idx) THEN "no"
  ELSE IF idx \in seen THEN "hang"
  ELSE AllActedScan(find_next_active_player(idx), seen \cup {idx})

all_acted_after_aggressor ==
  IF last_aggressor # None
  THEN AllActedScan(find_next_active_player(last_aggressor), {})
  ELSE IF \A i \in Seats : IsActive(i) => Contains(players_acted_this_round, i)
       THEN "yes" ELSE "no"

\* variant: matched bets alone complete the round
round_complete_bets_only == bets_matched \/ force_advancement

round_complete ==
  (bets_matched /\ bb_rule_satisfied /\ all_acted_after_aggressor = "yes")
    \/ force_advancement

\* the condition of the while loop of STEP 3: this seat is passed over
NeedsNoAction(i) ==
  \/ folded[i]
  \/ chips[i] = 0
  \/ Contains(players_acted_this_round, i) /\ current_bet[i] = highest_bet

\* the while loop of STEP 3 from seat idx on: the seat it stops at, "wrap"
\* when it comes back to the aggressor, "hang" when it never leaves
RECURSIVE NextToActScan(_, _)
NextToActScan(idx, seen) ==
  IF ~NeedsNoAction(idx) THEN [kind |-> "turn", seat |-> idx]
  ELSE LET nxt == find_next_active_player(idx)
       IN IF nxt = last_aggressor THEN [kind |-> "wrap", seat |-> nxt]
          ELSE IF idx \in seen THEN [kind |-> "hang", seat |-> idx]
          ELSE NextToActScan(nxt, seen \cup {idx})

next_to_act ==
  IF last_aggressor # None
  THEN NextToActScan(find_next_active_player(last_aggressor), {})
  ELSE [kind |-> "turn",
        seat |-> find_next_active_player(current_player_idx)]

\* STEP 3 sets the flag when the seat that just acted is the big blind
BbFlagAfterStep3 ==
  IF round = "PreFlop" /\ current_player_idx = big_blind_idx
  THEN TRUE ELSE bb_has_acted_preflop

\* what the call does: "showdown" (round set to Showdown, at most one active
\* player), "over" (returns false), "hang" (a scan never ends), "round"
\* (next_round), "wrap" (next_round from STEP 3), "turn" (next seat)
NextPlayerBranch ==
  IF active_players <= 1
  THEN IF round = "Showdown" THEN "over" ELSE "showdown"
  ELSE IF all_acted_after_aggressor = "hang" THEN "hang"
  ELSE IF round_complete
  THEN IF round = "Showdown" THEN "over" ELSE "round"
  ELSE IF next_to_act.kind = "hang" THEN "hang"
  ELSE IF next_to_act.kind = "wrap"
  THEN IF round = "Showdown" THEN "over" ELSE "wrap"
  ELSE "turn"

PcAfter(r) == IF r = "Showdown" THEN "resolve" ELSE "act"

\* next_player followed by what its caller does to the counter once it has
\* returned: reset is TRUE when the caller sets last_action_count to 0, which
\* it does unless the round has just become Showdown
NextPlayerThen(reset) ==
  /\ pc = "advance"
  /\ LET b == NextPlayerBranch
     IN CASE b = "showdown" ->
               /\ round' = "Showdown"
               /\ pc' = "resolve"
               /\ UNCHANGED <<current_bet, current_player_idx,
                              last_action_count, bb_has_acted_preflop,
                              players_acted_this_round, last_aggressor,
                              player_contributions_this_round,
                              community_cards, deck, cards,
                              folds_this_round,
                              pot_at_round_start>>
          [] b = "over" ->
               /\ pc' = "resolve"
               /\ last_action_count' = IF reset THEN 0 ELSE last_action_count
               /\ UNCHANGED <<round, current_bet, current_player_idx,
                              bb_has_acted_preflop,
                              players_acted_this_round, last_aggressor,
                              player_contributions_this_round,
                              community_cards, deck, cards,
                              folds_this_round,
                              pot_at_round_start>>
          [] b = "hang" ->
               /\ pc' = "hung"
               /\ UNCHANGED <<round, current_bet, current_player_idx,
                              last_action_count, bb_has_acted_preflop,
                              players_acted_this_round, last_aggressor,
                              player_contributions_this_round,
                              community_cards, deck, cards,
                              folds_this_round,
                              pot_at_round_start>>
          [] b = "round" ->
               /\ NextRound(current_player_idx)
               /\ pc' = PcAfter(NextRoundOf(round))
               /\ UNCHANGED bb_has_acted_preflop
          [] b = "wrap" ->
               /\ NextRound(next_to_act.seat)
               /\ pc' = PcAfter(NextRoundOf(round))
               /\ bb_has_acted_preflop' = BbFlagAfterStep3
          [] b = "turn" ->
               /\ current_player_idx' = next_to_act.seat
               /\ bb_has_acted_preflop' = BbFlagAfterStep3
               /\ pc' = "act"
               /\ last_action_count' = IF reset THEN 0 ELSE last_action_count
               /\ UNCHANGED <<round, current_bet,
                              players_acted_this_round, last_aggressor,
                              player_contributions_this_round,
                              community_cards, deck, cards,
                              folds_this_round,
                              pot_at_round_start>>
  /\ last_amount' = 0
  /\ last_total' = None
  /\ bot' = bot
  /\ last_request' = "none"
  /\ last_actual' = "none"
  /\ UNCHANGED <<n, chips, folded, pot, dealer_idx, small_blind_idx,
                 big_blind_idx, hands, hand_start_total, bb_acted, returned,
                 shown>>

NextPlayer == NextPlayerThen(FALSE)

\* ------------------------------------------------------ determine_winner
\* indices of the players that have not folded
NonFolded == {i \in Seats : ~folded[i]}

\* variant: folded players are not excluded from the award
WinnerCandidatesAnySeat == Seats

\* the players determine_winner can return: the only one left, or, with
\* several left, whichever of them the dealt cards favour
WinnerCandidates == NonFolded

\* variant: the pot is split evenly between the players still in the hand
ChipsAfterSplit(w) ==
  [i \in Seats |->
     IF i \in NonFolded THEN chips[i] + pot \div Cardinality(NonFolded)
     ELSE chips[i]]

\* self.players[winner_idx].chips += winnings
ChipsAfterPayout(w) == [chips EXCEPT ![w] = chips[w] + pot]

DetermineWinner ==
  /\ pc = "resolve"
  /\ \E w \in WinnerCandidates :
       /\ chips' = ChipsAfterPayout(w)
       /\ returned' = <<w, pot>>
  /\ pot' = 0
  /\ pc' = "idle"
  /\ UNCHANGED <<n, current_bet, folded, current_player_idx, round,
                 dealer_idx, small_blind_idx, big_blind_idx,
                 last_action_count, bb_has_acted_preflop,
                 players_acted_this_round, last_aggressor,
                 player_contributions_this_round, community_cards, deck,
                 hands, hand_start_total, folds_this_round, bb_acted,
                 pot_at_round_start, shown, last_amount, last_total, bot,
                 cards, last_request, last_actual>>

\* ------------------------------------------------------------------ Next
Act == \E rq \in Requests : PerformAction(rq[1], rq[2])

ActPanic == \E a \in RaiseAmounts : PerformActionPanic(a)

Next ==
  \/ DealCards
  \/ Act
  \/ ActPanic
  \/ NextPlayer
  \/ DetermineWinner

Spec == Init /\ [][Next]_vars

\* the same program with key 'd' also accepted while a hand is in progress
NextWithKeys == Next \/ DealCardsMidHand

SpecKeys == Init /\ [][NextWithKeys]_vars

\* the event loop keeps running: whenever a step of the program is possible,
\* one is eventually taken
SpecLive == Init /\ [][Next]_vars /\ WF_vars(Next)

\* ------------------------------------------- determine_winner, cards shown
\* ranks of hole cards (Rank::Two = 2 .. Rank::Ace = 14) used at the showdown
HoleRanks == {2, 9, 14}

\* what rs_poker's Hand::rank() can return for a player's hole cards plus the
\* board: a category (HighCard 0, OnePair 1, TwoPair 2, ...) and the value the
\* variant carries, which orders hands inside the category
HandRanks == (0 .. 2) \X (1 .. 2)

\* best_actual_hand = None
NoHand == <<None, None>>

\* hand_rank > *best_actual_hand, the derived ordering of PokerRank
RankGreater(a, b) == a[1] > b[1] \/ (a[1] = b[1] /\ a[2] > b[2])

\* one pass of the loop body for a player when community cards are on the board
StepWithBoard(st, p) ==
  LET hand_rank == shown.rank[p]
      rank_value == hand_rank[1]
  IN IF rank_value > st.best_rank_value \/ st.best_actual_hand = NoHand
     THEN [best_rank_value |-> rank_value, best_actual_hand |-> hand_rank,
           winner_idx |-> p]
     ELSE IF rank_value = st.best_rank_value /\ st.best_actual_hand # NoHand
               /\ RankGreater(hand_rank, st.best_actual_hand)
          THEN [st EXCEPT !.best_actual_hand = hand_rank, !.winner_idx = p]
          ELSE st

\* one pass of the loop body for a player when the board is empty
StepHoleOnly(st, p) ==
  LET player_cards == shown.hole[p]
  IN IF player_cards[1] = player_cards[2]
     THEN IF st.best_rank_value < 1
          THEN [st EXCEPT !.best_rank_value = 1, !.winner_idx = p]
          ELSE st
     ELSE IF st.best_rank_value = 0 /\ st.best_actual_hand = NoHand
          THEN [st EXCEPT !.winner_idx = p]
          ELSE st

\* for &player_idx in &active_players, in seat order
RECURSIVE CompareLoop(_, _)
CompareLoop(st, rest) ==
  IF rest = {} THEN st
  ELSE LET p == CHOOSE x \in rest : \A y \in rest : x <= y
           nxt == IF community_cards # 0 THEN StepWithBoard(st, p)
                  ELSE StepHoleOnly(st, p)
       IN CompareLoop(nxt, rest \ {p})

\* the index determine_winner returns for the cards shown
winner_by_cards ==
  LET first == CHOOSE x \in NonFolded : \A y \in NonFolded : x <= y
  IN IF Cardinality(NonFolded) = 1 THEN first
     ELSE CompareLoop([best_rank_value |-> 0, best_actual_hand |-> NoHand,
                       winner_idx |-> first], NonFolded).winner_idx

\* a hand reaches determine_winner with several players still in it and 0, 3,
\* 4 or 5 community cards; with a board the evaluated ranks are shown, without
\* one the hole cards
InitShowdown ==
  /\ n \in 2 .. MaxPlayers
  /\ folded \in [Seats -> BOOLEAN]
  /\ Cardinality({i \in Seats : ~folded[i]}) >= 2
  /\ community_cards \in {0, 3, 4, 5}
  /\ \/ /\ community_cards = 0
        /\ \E h \in [Seats -> HoleRanks \X HoleRanks] :
             shown = [hole |-> h, rank |-> <<>>]
     \/ /\ community_cards # 0
        /\ \E r \in [Seats -> HandRanks] :
             shown = [hole |-> <<>>, rank |-> r]
  /\ chips = [i \in Seats |-> IF folded[i] THEN MinBet ELSE 0]
  /\ current_bet = [i \in Seats |-> 0]
  /\ pot = n * MinBet
  /\ current_player_idx = 0
  /\ round = "Showdown"
  /\ dealer_idx = 0
  /\ small_blind_idx = 1 % n
  /\ big_blind_idx = 2 % n
  /\ last_action_count = 0
  /\ bb_has_acted_preflop = FALSE
  /\ players_acted_this_round = <<>>
  /\ last_aggressor = None
  /\ player_contributions_this_round = [i \in Seats |-> 0]
  /\ deck = DeckSize - 2 * n - community_cards
  /\ pc = "resolve"
  /\ hands = 1
  /\ hand_start_total = SumOver(chips, Seats) + pot
  /\ folds_this_round = FALSE
  /\ bb_acted = FALSE
  /\ pot_at_round_start = pot
  /\ returned = <<None, 0>>
  /\ last_amount = 0
  /\ last_total = None
  /\ bot = NoBot
  /\ cards = NoCopies
  /\ last_request = "none"
  /\ last_actual = "none"

\* determine_winner on the cards shown
DetermineWinnerByCards ==
  /\ pc = "resolve"
  /\ chips' = ChipsAfterPayout(winner_by_cards)
  /\ returned' = <<winner_by_cards, pot>>
  /\ pot' = 0
  /\ pc' = "idle"
  /\ UNCHANGED <<n, current_bet, folded, current_player_idx, round,
                 dealer_idx, small_blind_idx, big_blind_idx,
                 last_action_count, bb_has_acted_preflop,
                 players_acted_this_round, last_aggressor,
                 player_contributions_this_round, community_cards, deck,
                 hands, hand_start_total, folds_this_round, bb_acted,
                 pot_at_round_start, shown, last_amount, last_total, bot,
                 cards, last_request, last_actual>>

SpecShowdown == InitShowdown /\ [][DetermineWinnerByCards]_vars

\* ------------------------------------------- next_round, for any deck size
\* community cards on the board during a betting round
BoardOf(r) ==
  CASE r = "PreFlop" -> 0
    [] r = "Flop" -> 3
    [] r = "Turn" -> 4
    [] OTHER -> 5

\* a betting round is over and next_round is about to be called; the deck
\* holds any number of the cards left after the hole cards and the board
InitDeck ==
  /\ n \in 2 .. MaxPlayers
  /\ round \in {"PreFlop", "Flop", "Turn"}
  /\ community_cards = BoardOf(round)
  /\ deck \in 0 .. (DeckSize - 2 * n - community_cards)
  /\ chips = [i \in Seats |-> 2 * MinBet]
  /\ current_bet = [i \in Seats |-> MinBet]
  /\ folded = [i \in Seats |-> FALSE]
  /\ pot = n * MinBet
  /\ current_player_idx = 0
  /\ dealer_idx = 0
  /\ small_blind_idx = 1 % n
  /\ big_blind_idx = 2 % n
  /\ last_action_count = n
  /\ bb_has_acted_preflop = TRUE
  /\ players_acted_this_round = [k \in 1 .. n |-> k - 1]
  /\ last_aggressor = None
  /\ player_contributions_this_round = [i \in Seats |-> MinBet]
  /\ pc = "advance"
  /\ hands = 1
  /\ hand_start_total = SumOver(chips, Seats) + pot
  /\ folds_this_round = FALSE
  /\ bb_acted = TRUE
  /\ pot_at_round_start = 0
  /\ returned = <<None, 0>>
  /\ shown = Hidden
  /\ last_amount = 0
  /\ last_total = None
  /\ bot = NoBot
  /\ cards = NoCopies
  /\ last_request = "none"
  /\ last_actual = "none"

\* a call of next_round in a betting round
next_round_called ==
  /\ round # "Showdown"
  /\ NextRound(current_player_idx)
  /\ UNCHANGED <<n, chips, folded, pot, dealer_idx, small_blind_idx,
                 big_blind_idx, bb_has_acted_preflop, pc, hands,
                 hand_start_total, bb_acted, returned, shown, last_amount,
                 last_total, bot, last_request, last_actual>>

NextRoundCalled == pc = "advance" /\ next_round_called

SpecDeck == InitDeck /\ [][NextRoundCalled]_vars

\* --------------------------------------------------- deal_community_cards
\* cards the match on the round pops onto the board
FirstPops(r) ==
  CASE r = "Flop" -> 3
    [] r \in {"Turn", "River"} -> 1
    [] OTHER -> 0

expected_count(r) ==
  CASE r = "Flop" -> 3
    [] r = "Turn" -> 4
    [] r = "River" -> 5
    [] OTHER -> 0

\* the refill guard, the pops of the match, then, outside PreFlop, a clear
\* and a fresh deal when the count is not the expected one; a pop from an
\* empty deck adds nothing
deal_community_cards ==
  LET d0 == DeckAfterGuard
      a == Min(FirstPops(round), d0)
      c1 == community_cards + a
      d1 == d0 - a
      redeal == round # "PreFlop" /\ c1 # expected_count(round)
      b == IF redeal THEN Min(expected_count(round), d1) ELSE 0
      first == CardsAfter(cards, community_cards, community_cards, a, d0,
                          deck < 5)
  IN /\ community_cards' = IF redeal THEN b ELSE c1
     /\ deck' = d1 - b
     /\ cards' \in
          IF redeal
          THEN UNION {CardsAfter([x EXCEPT !.dup = cards.dup], c1, 0, b, d1,
                                 FALSE) : x \in first}
          ELSE first

DealCommunityCardsCalled ==
  /\ deal_community_cards
  /\ UNCHANGED <<n, chips, current_bet, folded, pot, current_player_idx,
                 round, dealer_idx, small_blind_idx, big_blind_idx,
                 last_action_count, bb_has_acted_preflop,
                 players_acted_this_round, last_aggressor,
                 player_contributions_this_round, pc, hands,
                 hand_start_total, folds_this_round, bb_acted,
                 pot_at_round_start, returned, shown, last_amount,
                 last_total, bot, last_request, last_actual>>

\* deal_community_cards called in any round, on any board, with any deck
InitBoard ==
  /\ n \in 2 .. MaxPlayers
  /\ round \in {"PreFlop", "Flop", "Turn", "River", "Showdown"}
  /\ community_cards \in 0 .. 5
  /\ deck \in 0 .. (DeckSize - 2 * n - community_cards)
  /\ chips = [i \in Seats |-> 2 * MinBet]
  /\ current_bet = [i \in Seats |-> MinBet]
  /\ folded = [i \in Seats |-> FALSE]
  /\ pot = n * MinBet
  /\ current_player_idx = 0
  /\ dealer_idx = 0
  /\ small_blind_idx = 1 % n
  /\ big_blind_idx = 2 % n
  /\ last_action_count = 0
  /\ bb_has_acted_preflop = FALSE
  /\ players_acted_this_round = <<>>
  /\ last_aggressor = None
  /\ player_contributions_this_round = [i \in Seats |-> MinBet]
  /\ pc = "act"
  /\ hands = 1
  /\ hand_start_total = SumOver(chips, Seats) + pot
  /\ folds_this_round = FALSE
  /\ bb_acted = FALSE
  /\ pot_at_round_start = 0
  /\ returned = <<None, 0>>
  /\ shown = Hidden
  /\ last_amount = 0
  /\ last_total = None
  /\ bot = NoBot
  /\ cards = NoCopies
  /\ last_request = "none"
  /\ last_actual = "none"

SpecBoard == InitBoard /\ [][DealCommunityCardsCalled]_vars

\* the game's own dealing functions called one after the other: deal_cards,
\* then next_round and deal_community_cards in any order
NextCards ==
  \/ deal_cards
  \/ hands > 0 /\ next_round_called
  \/ hands > 0 /\ DealCommunityCardsCalled

SpecCards == Init /\ [][NextCards]_vars

\* ---------------------------------------------------------- get_bot_action
\* a string is its first word and its second word: a number, NoArg or BadArg
BotDifficulties == {"Easy", "Medium", "Hard"}

\* what the advisory service can come to: no API key, a failed call, or a
\* reply holding some string
Advisories ==
  {<<"no_key", <<"", NoArg>>>>, <<"error", <<"", NoArg>>>>} \cup
  {<<"reply", str>> : str \in {<<"fold", NoArg>>, <<"raise", 2 * MinBet>>,
                               <<"raise", BadArg>>, <<"raise", NoArg>>,
                               <<"hello", NoArg>>}}

\* chips of the bot and values of last_action_count at a get_bot_action call
BotStacks == {0, MinBet - 1, MinBet, 3 * MinBet}
ActionCounts == 0 .. 18

\* (self.last_action_count as f32 * 0.5).min(8.0) as u32
raise_penalty == Min(last_action_count \div 2, 8)

is_late_round == round \in {"Turn", "River"}

\* player.chips >= self.min_bet
has_chips(p) == chips[p] >= MinBet

\* the branch for one difficulty: the roll is shifted by `shift` in a late
\* round or beyond `after` actions, then cut into call / check / raise / fold
PolicyBranch(p, roll, mult, after, shift, call_lt, check_lt, raise_lt, pen_lt) ==
  LET choice == IF is_late_round \/ last_action_count > after
                THEN roll + shift ELSE roll
  IN IF choice < call_lt THEN <<"call", NoArg>>
     ELSE IF choice < check_lt THEN <<"check", NoArg>>
     ELSE IF choice < raise_lt /\ has_chips(p) /\ raise_penalty < pen_lt
          THEN <<"raise", mult * MinBet>>
          ELSE <<"fold", NoArg>>

\* the string the weighted-random policy produces for the roll in 0..9 and,
\* for Medium and Hard, the multiplier in 1..2
generate_random_bot_action(p, difficulty, roll, mult) ==
  CASE difficulty = "Easy" -> PolicyBranch(p, roll, 1, 10, 2, 5, 8, 9, 8)
    [] difficulty = "Medium" -> PolicyBranch(p, roll, mult, 8, 3, 3, 6, 9, 7)
    [] OTHER -> PolicyBranch(p, roll, mult, 6, 2, 2, 4, 8, 6)

\* variant: a reply of the advisory service is parsed in place of the
\* policy's string
action_str_advised(advisory, policy_str) ==
  IF advisory[1] = "reply" THEN advisory[2] ELSE policy_str

\* let action_str = self.generate_random_bot_action(bot_player)
action_str(advisory, policy_str) == policy_str

\* the parse of the string into the Result that is returned
ParseBotAction(str) ==
  CASE str[1] = "fold" -> <<"Ok", "Fold", 0>>
    [] str[1] = "call" -> <<"Ok", "Call", 0>>
    [] str[1] = "check" -> <<"Ok", "Check", 0>>
    [] str[1] = "raise" ->
         IF str[2] >= 0 THEN <<"Ok", "Raise", str[2]>>
         ELSE <<"Ok", "Raise", MinBet>>
    [] OTHER -> <<"Ok", "Check", 0>>

\* a bot is to act in some betting round after some number of actions
InitBot ==
  /\ n = 2
  /\ \E c \in BotStacks : chips = [i \in Seats |-> IF i = 0 THEN c ELSE 3 * MinBet]
  /\ round \in {"PreFlop", "Flop", "Turn", "River"}
  /\ last_action_count \in ActionCounts
  /\ \E d \in BotDifficulties, a \in Advisories :
       bot = [NoBot EXCEPT !.difficulty = d, !.advisory = a]
  /\ cards = NoCopies
  /\ community_cards = BoardOf(round)
  /\ deck = DeckSize - 2 * n - community_cards
  /\ current_bet = [i \in Seats |-> 0]
  /\ folded = [i \in Seats |-> FALSE]
  /\ pot = n * MinBet
  /\ current_player_idx = 0
  /\ dealer_idx = 0
  /\ small_blind_idx = 1
  /\ big_blind_idx = 0
  /\ bb_has_acted_preflop = FALSE
  /\ players_acted_this_round = <<>>
  /\ last_aggressor = None
  /\ player_contributions_this_round = [i \in Seats |-> 0]
  /\ pc = "act"
  /\ hands = 1
  /\ hand_start_total = SumOver(chips, Seats) + pot
  /\ folds_this_round = FALSE
  /\ bb_acted = FALSE
  /\ pot_at_round_start = pot
  /\ returned = <<None, 0>>
  /\ shown = Hidden
  /\ last_amount = 0
  /\ last_total = None
  /\ last_request = "none"
  /\ last_actual = "none"

\* get_bot_action for the player to act
GetBotAction ==
  /\ pc = "act"
  /\ bot.result = NoBot.result
  /\ \E roll \in 0 .. 9, mult \in 1 .. 2 :
       LET policy_str == generate_random_bot_action(current_player_idx,
                                                   bot.difficulty, roll, mult)
       IN bot' = [bot EXCEPT
                    !.policy = policy_str,
                    !.result = ParseBotAction(action_str(bot.advisory,
                                                         policy_str))]
  /\ UNCHANGED <<n, gameVars, pc, hands, hand_start_total, folds_this_round,
                 bb_acted, pot_at_round_start, returned, shown, last_amount,
                 last_total, cards, last_request, last_actual>>

SpecBot == InitBot /\ [][GetBotAction]_vars

\* ------------------------------------------------------- the application
\* App::new: one human and eight bots, 100 chips each
ApplicationPlayers == 9

ApplicationChips == 100

\* the human is pushed first, the bots after
is_bot(i) == i >= 1

\* what the human's keys ask for
HumanRequests == {<<"Call", 0>>, <<"Fold", 0>>}

\* what the bots' policy asks for
BotRequests == {<<"Call", 0>>}

InitApp ==
  /\ n = ApplicationPlayers
  /\ chips = [i \in Seats |-> ApplicationChips]
  /\ current_bet = [i \in Seats |-> 0]
  /\ folded = [i \in Seats |-> FALSE]
  /\ pot = 0
  /\ current_player_idx = 0
  /\ round = "PreFlop"
  /\ dealer_idx \in Seats
  /\ small_blind_idx = (dealer_idx + 1) % n
  /\ big_blind_idx = (small_blind_idx + 1) % n
  /\ last_action_count = 0
  /\ bb_has_acted_preflop = FALSE
  /\ players_acted_this_round = <<>>
  /\ last_aggressor = None
  /\ player_contributions_this_round = [i \in Seats |-> 0]
  /\ community_cards = 0
  /\ deck = DeckSize
  /\ pc = "idle"
  /\ hands = 0
  /\ hand_start_total = SumOver(chips, Seats)
  /\ folds_this_round = FALSE
  /\ bb_acted = FALSE
  /\ pot_at_round_start = 0
  /\ returned = <<None, 0>>
  /\ shown = Hidden
  /\ last_amount = 0
  /\ last_total = None
  /\ bot = NoBot
  /\ cards = NoCopies
  /\ last_request = "none"
  /\ last_actual = "none"

\* a key of the human whose turn it is: handle_player_action up to and
\* including perform_action
HumanAction ==
  /\ ~is_bot(current_player_idx)
  /\ \E rq \in HumanRequests : PerformAction(rq[1], rq[2])

\* the bot branch of the main loop up to and including perform_action: the
\* loop adds one to the counter before it asks the bot
BotAction ==
  /\ is_bot(current_player_idx)
  /\ \E rq \in BotRequests : PerformActionAt(last_action_count + 1, rq[1], rq[2])

\* next_player as the two drivers call it: handle_player_action sets the
\* counter to 0 afterwards, the main loop does not
AppNextPlayer == NextPlayerThen(~is_bot(current_player_idx))

NextApp ==
  \/ DealCards
  \/ HumanAction
  \/ BotAction
  \/ AppNextPlayer
  \/ DetermineWinner

SpecApp == InitApp /\ [][NextApp]_vars

\* with these requests the main loop's action limit (more than 25) is never
\* reached, so its branch is never taken
ActionLimitNotReached == last_action_count <= 25

\* ---------------------------------------------------------------- claims
InHand == pc \in {"act", "advance", "resolve", "hung", "panicked"}

TotalChips == SumOver(chips, Seats)

\* C1: from deal_cards until determine_winner pays out, the players' chips
\* plus the pot equal the players' chips at hand start, for every stack,
\* also one smaller than the ante or blind it owes
C1_ChipConservation == InHand => TotalChips + pot = hand_start_total

\* C2: every perform_action call takes from the acting player's chips exactly
\* what it adds to the pot and leaves every other player's chips alone
C2_ActionBalanced ==
  [][pc = "act" /\ pc' \in {"advance", "panicked"} =>
       /\ chips[current_player_idx] - chips'[current_player_idx] = pot' - pot
       /\ chips'[current_player_idx] <= chips[current_player_idx]
       /\ \A j \in Seats \ {current_player_idx} : chips'[j] = chips[j]]_vars

\* a raise that was cut down to the raiser's whole stack has been performed
C2_Witness ==
  /\ pc = "advance"
  /\ last_actual = "Raise"
  /\ chips[current_player_idx] = 0
  /\ pot > PotAfterPosting

\* C3: during a betting round the action counter never exceeds three times
\* the number of active players, also right after a fold or an all-in
C3_BoundedRound ==
  pc \in {"act", "advance"} /\ round # "Showdown" =>
    last_action_count <= 3 * active_players

\* C3 as amended: whenever a player is asked to act after at least one
\* action in the round, the counter is below three times the number of
\* active players
C3_BoundedWhenAsked ==
  pc = "act" /\ last_action_count > 0 =>
    last_action_count < 3 * active_players

\* a player is asked to act with the counter one below the ceiling, in a
\* round in which a fold has lowered the number of active players
C3_Witness ==
  /\ pc = "act"
  /\ folds_this_round
  /\ last_action_count > 0
  /\ last_action_count = 3 * active_players - 1

\* C4: in a round without a raise in which every action so far was a call or
\* a check, nobody is asked to act a second time (so N active players make at
\* most N actions); in PreFlop as well as after the flop
C4_NoSecondTurn ==
  pc = "act" /\ last_aggressor = None /\ ~folds_this_round =>
    ~Contains(players_acted_this_round, current_player_idx)

\* C5: once every other active player has answered the last bet or raise,
\* the next next_player call ends the round or the hand, whatever the
\* aggressor's stack
C5_AggressorNotAskedAgain ==
  [][/\ pc = "advance"
     /\ last_aggressor # None
     /\ \A j \in Seats \ {last_aggressor} :
          IsActive(j) => Contains(players_acted_this_round, j)
     => pc' = "resolve" \/ (pc' = "act" /\ round' # round)]_vars

\* C6: unless the safety valve fires, the round does not change while an
\* active player still has a current_bet below the highest bet
C6_ActionReopens ==
  [][/\ pc = "advance"
     /\ round' # round
     /\ last_action_count < 3 * active_players
     => \A j \in Seats : IsActive(j) => current_bet[j] = highest_bet]_vars

\* C7: the player asked to act is never one that has acted since the last
\* bet or raise and already matches the highest bet
C7_NotAskedAgain ==
  pc = "act" =>
    ~(/\ Contains(players_acted_this_round, current_player_idx)
      /\ current_bet[current_player_idx] = highest_bet)

\* C8: whenever an action can be requested and some player is active,
\* current_player_idx is an active player
C8_CurrentIsActive ==
  pc = "act" /\ active_players >= 1 => IsActive(current_player_idx)

\* C9: when the round changes, exactly one of "at most one active player"
\* and "every non-folded player matches the highest bet or has no chips" holds
C9_ExactlyOneReason ==
  [][pc = "advance" /\ round' # round =>
       (active_players <= 1) #
       (\A j \in Seats : ~folded[j] =>
          (current_bet[j] = highest_bet \/ chips[j] = 0))]_vars

\* C9 as amended: when the round changes, at most one player is active, or
\* every non-folded player matches the highest bet or has no chips, or the
\* counter has reached three times the active players
C9_SomeReason ==
  [][pc = "advance" /\ round' # round =>
       \/ active_players <= 1
       \/ \A j \in Seats : ~folded[j] =>
             (current_bet[j] = highest_bet \/ chips[j] = 0)
       \/ last_action_count >= 3 * active_players]_vars

\* the hand went straight to Showdown with at most one active player while
\* every non-folded player also matched the highest bet or had no chips
C9_Witness ==
  /\ pc = "resolve"
  /\ round = "Showdown"
  /\ community_cards < 5
  /\ active_players <= 1
  /\ \A j \in Seats : ~folded[j] =>
        (current_bet[j] = highest_bet \/ chips[j] = 0)

NormalCompletion ==
  bets_matched /\ bb_rule_satisfied /\ all_acted_after_aggressor = "yes"

\* next_player is entered with several active players, the normal completion
\* conditions do not all hold, and the scan after the aggressor ends
ValveDecides ==
  /\ pc = "advance"
  /\ active_players > 1
  /\ all_acted_after_aggressor # "hang"
  /\ ~NormalCompletion

\* C11: when the normal completion conditions do not all hold and more than
\* one player is active, next_player completes the round if and only if the
\* counter exceeds three times the active players
C11_ValveIffExceeds ==
  [][ValveDecides =>
       ((round' # round) <=> (last_action_count > 3 * active_players))]_vars

\* C11 as amended: in that situation the round is completed whenever the
\* counter has reached three times the active players; below that it stays
\* open, or ends only because the scan of STEP 3 came back to the aggressor
C11_ValveAtThreshold ==
  [][ValveDecides =>
       /\ (last_action_count >= 3 * active_players => round' # round)
       /\ (last_action_count < 3 * active_players /\ round' # round =>
             next_to_act.kind = "wrap")]_vars

\* next_player is entered with the counter exactly at three times the active
\* players while the normal conditions do not hold
C11_Witness ==
  /\ ValveDecides
  /\ last_action_count = 3 * active_players

\* C12: at every point of a hand the pot equals the pot at the start of the
\* current round plus the sum of player_contributions_this_round
C12_PotIsContributions ==
  InHand =>
    pot = pot_at_round_start + SumOver(player_contributions_this_round, Seats)

\* a raise has been paid in a round after PreFlop, on top of a pot carried
\* over from the rounds before
C12_Witness ==
  /\ pc = "advance"
  /\ round \in {"Flop", "Turn", "River"}
  /\ last_actual = "Raise"
  /\ pot_at_round_start > 0
  /\ SumOver(player_contributions_this_round, Seats) > 0

\* C13: no step lowers the pot except the payout of determine_winner, which
\* sets it to exactly 0; a new deal requested at any time included
C13_PotMonotonic ==
  [][pot' >= pot \/ (pc = "resolve" /\ pc' = "idle" /\ pot' = 0)]_vars

\* the successor of a round in PreFlop, Flop, Turn, River, Showdown
RoundAfter(r) ==
  CASE r = "PreFlop" -> "Flop"
    [] r = "Flop" -> "Turn"
    [] r = "Turn" -> "River"
    [] r = "River" -> "Showdown"
    [] OTHER -> "none"

\* C14: the round changes only one step forward along PreFlop, Flop, Turn,
\* River, Showdown, or straight to Showdown when at most one player is
\* active, or back to PreFlop by deal_cards starting a new hand
C14_RoundOrder ==
  [][round' # round =>
       \/ round' = RoundAfter(round)
       \/ round' = "Showdown" /\ active_players <= 1
       \/ round' = "PreFlop" /\ hands' = hands + 1]_vars

\* a hand has been played through every round to the Showdown with several
\* players still active
C14_Witness ==
  /\ pc = "resolve"
  /\ round = "Showdown"
  /\ community_cards = 5
  /\ active_players > 1

\* C15: after a transition into Flop, Turn or River every current_bet is 0,
\* players_acted_this_round is empty, last_aggressor is None, every
\* contribution is 0, the counter is 0 and current_player_idx is the first
\* non-folded player with chips strictly after the small blind
C15_RoundReset ==
  [][round' # round /\ round' \in {"Flop", "Turn", "River"} =>
       /\ \A i \in Seats : current_bet'[i] = 0
       /\ players_acted_this_round' = <<>>
       /\ last_aggressor' = None
       /\ \A i \in Seats : player_contributions_this_round'[i] = 0
       /\ last_action_count' = 0
       /\ \E k \in 1 .. (n - 1) :
            /\ current_player_idx' = (small_blind_idx + k) % n
            /\ ~folded'[current_player_idx'] /\ chips'[current_player_idx'] > 0
            /\ \A m \in 1 .. (k - 1) :
                 LET j == (small_blind_idx + m) % n
                 IN folded'[j] \/ chips'[j] = 0]_vars

\* a round after the Flop has just begun and the seat next to the small
\* blind was passed over
C15_Witness ==
  /\ pc = "act"
  /\ round \in {"Turn", "River"}
  /\ last_action_count = 0
  /\ players_acted_this_round = <<>>
  /\ current_player_idx # (small_blind_idx + 1) % n

\* every player but the last bettor or raiser has folded
OnlyAggressorLeft == last_aggressor # None /\ NonFolded = {last_aggressor}

\* C16: when a player bets or raises and all the others fold, the hand ends
\* right after the last fold, with no further turn and no further round, and
\* determine_winner awards the whole pot to the only player left
C16_AllFoldEndsHand ==
  [][/\ (pc = "advance" /\ last_actual = "Fold" /\ OnlyAggressorLeft =>
           pc' = "resolve" /\ round' = "Showdown")
     /\ (pc = "resolve" /\ OnlyAggressorLeft =>
           /\ chips' = [chips EXCEPT
                          ![last_aggressor] = chips[last_aggressor] + pot]
           /\ pot' = 0
           /\ pc' = "idle")]_vars

\* the bettor has been paid the pot after everyone else folded before the
\* board was complete
C16_Witness ==
  /\ pc = "idle"
  /\ hands >= 1
  /\ OnlyAggressorLeft
  /\ round = "Showdown"
  /\ community_cards < 5
  /\ pot = 0
  /\ chips[last_aggressor] > 0

\* C17: when the hand ends because at most one active player remains, the
\* board holds 5 community cards by the time determine_winner resolves it
C17_BoardCompleted ==
  pc = "resolve" /\ active_players <= 1 => community_cards = 5

\* C18: determine_winner adds the whole pot to the chips of exactly one
\* non-folded player, sets the pot to 0, returns that player and the amount,
\* and leaves every other player's chips unchanged
C18_WholePotToOne ==
  [][pc = "resolve" /\ pc' = "idle" =>
       /\ pot' = 0
       /\ \E w \in Seats :
            /\ ~folded[w]
            /\ returned' = <<w, pot>>
            /\ chips'[w] = chips[w] + pot
            /\ \A j \in Seats \ {w} : chips'[j] = chips[j]]_vars

\* the pot went to a player who had committed less in the last round than an
\* all-in player also still in the hand
C18_Witness ==
  /\ pc = "idle"
  /\ returned[1] # None
  /\ returned[2] > 0
  /\ \E j \in NonFolded \ {returned[1]} :
       /\ chips[j] = 0
       /\ current_bet[returned[1]] < current_bet[j]

\* the strength of a player's hand under the hand ordering: category first,
\* then the tie-break inside the category; without a board the hole cards
\* make a pair (by rank) or a high card (higher card, then lower card)
HandValue(i) ==
  IF community_cards # 0
  THEN shown.rank[i][1] * 1000 + shown.rank[i][2]
  ELSE LET h == shown.hole[i]
       IN IF h[1] = h[2] THEN 1000 + h[1]
          ELSE IF h[1] > h[2] THEN h[1] * 15 + h[2] ELSE h[2] * 15 + h[1]

\* C19: with two or more non-folded players and 0, 3, 4 or 5 community
\* cards, no other non-folded player's hand beats the hand of the player
\* determine_winner returns
C19_WinnerHoldsBest ==
  [][pc = "resolve" /\ pc' = "idle" /\ Cardinality(NonFolded) >= 2 =>
       \A j \in NonFolded : HandValue(j) <= HandValue(returned'[1])]_vars

\* a Raise(amount) was requested of the player to act, who faces a bet and
\* owes chips, and current_bet + amount stays below highest_bet + min_bet
ShortRaiseHandled ==
  /\ pc = "act" /\ pc' = "advance"
  /\ last_request' = "Raise" /\ last_amount' # U32Max
  /\ highest_bet > 0
  /\ highest_bet > current_bet[current_player_idx]
  /\ current_bet[current_player_idx] + last_amount' < highest_bet + MinBet

\* C20: facing a bet, a Raise that falls short of highest_bet + min_bet with
\* an amount owed is executed as a Call: min(amount owed, chips) moves from the
\* player's chips to the pot and to current_bet, Call is returned, and
\* last_aggressor and the other players' entries in players_acted_this_round
\* are unchanged
C20_ShortRaiseIsCall ==
  [][ShortRaiseHandled =>
       LET i == current_player_idx
           moved == Min(highest_bet - current_bet[i], chips[i])
       IN /\ last_actual' = "Call"
          /\ chips' = [chips EXCEPT ![i] = chips[i] - moved]
          /\ pot' = pot + moved
          /\ current_bet' = [current_bet EXCEPT ![i] = current_bet[i] + moved]
          /\ last_aggressor' = last_aggressor
          /\ \A j \in Seats \ {i} :
               Contains(players_acted_this_round', j)
                 = Contains(players_acted_this_round, j)]_vars

C20_Witness ==
  /\ pc = "advance" /\ last_request = "Raise" /\ last_amount = 3
  /\ last_actual = "Call"
  /\ player_contributions_this_round[current_player_idx] >= MinBet
  /\ last_aggressor \notin {None, current_player_idx}
  /\ Len(players_acted_this_round) >= 2

\* perform_action was called with the request req for the player to act and
\* returned
Performed(req) == pc = "act" /\ pc' = "advance" /\ last_request' = req

\* C21: Check requested while the player's current_bet is below the highest
\* bet is executed as a Call: min(highest_bet - current_bet, chips) moves from
\* chips to pot and current_bet, and Call is returned with the resulting total
\* bet
C21_CheckBehindIsCall ==
  [][Performed("Check") /\ current_bet[current_player_idx] < highest_bet =>
       LET i == current_player_idx
           moved == Min(highest_bet - current_bet[i], chips[i])
       IN /\ last_actual' = "Call"
          /\ last_total' = current_bet[i] + moved
          /\ chips' = [chips EXCEPT ![i] = chips[i] - moved]
          /\ pot' = pot + moved
          /\ current_bet' = [current_bet EXCEPT ![i] = current_bet[i] + moved]]_vars

C21_Witness ==
  /\ pc = "advance" /\ last_request = "Check" /\ last_actual = "Call"
  /\ last_total = highest_bet /\ last_total > 0
  /\ chips[current_player_idx] > 0

\* C22: Call requested while the player's current_bet already equals the
\* highest bet is executed as a Check: Check is returned and chips, pot,
\* current_bet, player_contributions_this_round and last_aggressor are
\* unchanged
C22_CallWithNothingOwedIsCheck ==
  [][Performed("Call") /\ current_bet[current_player_idx] = highest_bet =>
       /\ last_actual' = "Check"
       /\ UNCHANGED <<chips, pot, current_bet,
                      player_contributions_this_round, last_aggressor>>]_vars

C22_Witness ==
  /\ pc = "advance" /\ last_request = "Call" /\ last_actual = "Check"
  /\ highest_bet > 0
  /\ last_aggressor \notin {None, current_player_idx}

\* C23: Fold is accepted whenever a player is to act; it sets the acting
\* player's folded flag and leaves all chips and current bets, the pot,
\* player_contributions_this_round and last_aggressor unchanged; a folded flag
\* is cleared by deal_cards only
C23_FoldAlwaysLegal ==
  [][/\ (pc = "act" => ENABLED PerformAction("Fold", 0))
     /\ (Performed("Fold") =>
           /\ last_actual' = "Fold"
           /\ folded'[current_player_idx]
           /\ UNCHANGED <<chips, current_bet, pot,
                          player_contributions_this_round, last_aggressor>>)
     /\ \A j \in Seats : folded[j] /\ ~folded'[j] => hands' = hands + 1]_vars

C23_Witness ==
  /\ pc = "act" /\ round \in {"Turn", "River"}
  /\ \E j \in Seats : folded[j] /\ current_bet[j] = 0 /\ j # current_player_idx
  /\ hands = MaxHands

\* C24: when the highest bet is 0, Raise(amount) with min(amount, chips)
\* below min_bet is executed as a Check: Check is returned, no chips move, and
\* last_aggressor and the other players' acted status are unchanged
C24_SmallOpeningBetIsCheck ==
  [][(/\ Performed("Raise") /\ highest_bet = 0
      /\ LessU32(MinU32(last_amount', chips[current_player_idx]), MinBet)) =>
       /\ last_actual' = "Check"
       /\ UNCHANGED <<chips, pot, current_bet,
                      player_contributions_this_round, last_aggressor>>
       /\ \A j \in Seats \ {current_player_idx} :
            Contains(players_acted_this_round', j)
              = Contains(players_acted_this_round, j)]_vars

\* a requested opening bet of min_bet or more was cut below min_bet by the
\* player's stack and checked
C24_Witness ==
  /\ pc = "advance" /\ last_request = "Raise" /\ last_actual = "Check"
  /\ highest_bet = 0 /\ round # "PreFlop"
  /\ last_amount = 20
  /\ 0 < chips[current_player_idx] /\ chips[current_player_idx] < MinBet
  /\ Len(players_acted_this_round) >= 2

\* C25: every action perform_action reports as Raise was requested as an
\* opening bet that, capped by the chips, is at least min_bet, or as a raise to
\* at least highest_bet + min_bet; it sets last_aggressor to the acting player
\* and leaves players_acted_this_round holding exactly the acting player; an action reported as Fold, Check or Call does not change
\* last_aggressor
C25_RaiseSetsAggressor ==
  [][pc = "act" /\ pc' = "advance" =>
       /\ (last_actual' = "Raise" =>
             /\ last_request' = "Raise"
             /\ IF highest_bet = 0
                THEN ~LessU32(MinU32(last_amount', chips[current_player_idx]),
                              MinBet)
                ELSE \/ last_amount' = U32Max
                     \/ current_bet[current_player_idx] + last_amount'
                          >= highest_bet + MinBet
             /\ last_aggressor' = current_player_idx
             /\ players_acted_this_round' = <<current_player_idx>>)
       /\ (last_actual' \in {"Fold", "Check", "Call"} =>
             last_aggressor' = last_aggressor)]_vars

\* a re-raise: the aggressor changed hands and the acted list was cut back
C25_Witness ==
  /\ pc = "advance" /\ last_actual = "Raise"
  /\ last_aggressor = current_player_idx
  /\ players_acted_this_round = <<current_player_idx>>
  /\ last_action_count >= 3
  /\ \E j \in Seats \ {current_player_idx} :
       ~folded[j] /\ current_bet[j] >= 2 * MinBet

\* C26: when next_round deals community cards from a deck of fewer than 5
\* cards, the cards come from a fresh 52-card deck, and entering Flop, Turn or
\* River leaves exactly 3, 4 or 5 community cards, whatever the deck held
C26_DeckUnderflowRecovered ==
  [][round' # round /\ round' \in {"Flop", "Turn", "River"} =>
       /\ community_cards' = BoardOf(round')
       /\ (deck < 5 =>
             deck' = DeckSize - (community_cards' - community_cards))]_vars

\* the Turn was entered with 4 cards left in the deck
C26_Witness ==
  round = "Turn" /\ community_cards = 4 /\ deck = DeckSize - 1

\* the advisory service gave nothing usable: no key, a failed call, or a
\* reply that is not fold, call, check or raise with a number
AdvisoryFailed(advisory) ==
  \/ advisory[1] \in {"no_key", "error"}
  \/ /\ advisory[1] = "reply"
     /\ advisory[2][1] \notin {"fold", "call", "check"}
     /\ ~(advisory[2][1] = "raise" /\ advisory[2][2] >= 0)

\* the action the policy's string stands for
PolicyAction(str) ==
  CASE str[1] = "fold" -> <<"Fold", 0>>
    [] str[1] = "call" -> <<"Call", 0>>
    [] str[1] = "check" -> <<"Check", 0>>
    [] OTHER -> <<"Raise", str[2]>>

C28_NextPlayerReturns ==
  [][pc = "advance" => pc' # "hung"]_vars

\* C29: every hand eventually ends: from every state in which a player is to
\* act, if the driver keeps applying actions, the hand reaches winner
\* resolution (round Showdown, determine_winner called, pot 0)
C29_HandEnds ==
  (pc = "act") ~> (pc = "idle" /\ round = "Showdown" /\ pot = 0)

\* C30: during a betting round the last aggressor's current_bet is the highest
\* current bet at the table: an action reported as Raise leaves the actor with
\* the highest bet, whatever the actor's chip stack
C30_AggressorHoldsHighestBet ==
  pc \in {"act", "advance"} /\ round # "Showdown" /\ last_aggressor # None =>
    current_bet[last_aggressor] = highest_bet

\* C31: from deal_cards to the end of the hand at least one player is
\* non-folded, so determine_winner has a candidate, and the index it returns
\* is that of a non-folded player
C31_SomeoneStaysIn ==
  /\ InHand => NonFolded # {}
  /\ returned[1] # None => returned[1] \in NonFolded

\* a hand resolved after all players but one folded
C31_Witness ==
  /\ pc = "idle" /\ n = MaxPlayers
  /\ returned[1] # None /\ NonFolded = {returned[1]}

\* C32: within one hand driven through the application no card appears twice
\* among the players' hole cards and the community cards
C32_NoCardTwice == InHand => ~cards.dup

\* C33: in every reachable state the number of community cards matches the
\* round: 0 in PreFlop, 3 in Flop, 4 in Turn, 5 in River
C33_BoardMatchesRound ==
  /\ round = "PreFlop" => community_cards = 0
  /\ round = "Flop" => community_cards = 3
  /\ round = "Turn" => community_cards = 4
  /\ round = "River" => community_cards = 5

C33_Witness == pc = "act" /\ round = "River" /\ community_cards = 5

\* C34: from deal_cards on and while the deck has not been built anew, the
\* deck, the hole cards (two per player) and the community cards add up to 52
\* after every operation; after deal_cards the deck holds 52 - 2 x players
C34_CardsAddUp ==
  (hands > 0 /\ ~cards.rebuilt) => deck + 2 * n + community_cards = DeckSize

\* C35: deal_community_cards called in round Flop, Turn or River, on a board
\* of 0 to 5 cards and with a deck of any size, leaves exactly 3, 4 or 5
\* community cards, and so does a second call
C35_CountAfterDealing ==
  [][/\ round = "Flop" => community_cards' = 3
     /\ round = "Turn" => community_cards' = 4
     /\ round = "River" => community_cards' = 5]_vars

\* C36: deal_community_cards called in round PreFlop or Showdown leaves the
\* community cards as they were, whatever is on the board
C36_NoDealOutsideBetting ==
  [][(round \in {"PreFlop", "Showdown"}) =>
       (community_cards' = community_cards)]_vars

Occurrences(list, x) == Cardinality({k \in DOMAIN list : list[k] = x})

\* C37: every perform_action call, whatever is asked and whether or not it
\* is downgraded, raises last_action_count by exactly 1 and leaves the acting
\* player exactly once in players_acted_this_round, a list without duplicates
C37_ActionCountedOnce ==
  [][(pc = "act" /\ pc' \in {"advance", "panicked"}) =>
       /\ last_action_count' = last_action_count + 1
       /\ Occurrences(players_acted_this_round', current_player_idx) = 1
       /\ \A i \in Seats : Occurrences(players_acted_this_round', i) <= 1]_vars

C37_Witness ==
  /\ pc = "advance"
  /\ last_request = "Raise" /\ last_actual = "Call"
  /\ last_action_count > 1
  /\ Len(players_acted_this_round) > 1
  /\ Occurrences(players_acted_this_round, current_player_idx) = 1

\* C38: in the running application each applied action, human or bot, raises
\* last_action_count by exactly 1, and between the actions of one betting
\* round nothing else changes it, so that it equals the number of actions
\* performed since the round began
C38_CounterCountsActions ==
  [][/\ (pc = "act" /\ pc' = "advance") =>
          last_action_count' = last_action_count + 1
     /\ (pc = "advance" /\ pc' = "act" /\ round' = round) =>
          last_action_count' = last_action_count]_vars

\* C39: in every reachable state small_blind_idx is (dealer_idx + 1) mod n
\* and big_blind_idx is (dealer_idx + 2) mod n, and each deal_cards call moves
\* dealer_idx, small_blind_idx and big_blind_idx forward by exactly 1 mod n
C39_PositionsRotate ==
  /\ [](/\ small_blind_idx = (dealer_idx + 1) % n
        /\ big_blind_idx = (dealer_idx + 2) % n)
  /\ [][(hands' # hands) =>
          /\ dealer_idx' = (dealer_idx + 1) % n
          /\ small_blind_idx' = (small_blind_idx + 1) % n
          /\ big_blind_idx' = (big_blind_idx + 1) % n]_vars

C39_Witness ==
  /\ n = 2 /\ hands = MaxHands /\ pc = "act"
  /\ dealer_idx = 0 /\ small_blind_idx = 1 /\ big_blind_idx = 0

\* what a seat posts in a hand with the given blinds: the ante, plus the
\* small or the big blind
Posted(i, sb, bb) ==
  Ante + (IF i = sb THEN MinBet \div 2 ELSE 0) + (IF i = bb THEN MinBet ELSE 0)

\* C40: after deal_cards with players who can all afford the ante and their
\* blind the round is PreFlop, the board is empty, nobody is folded, the pot
\* is n antes plus 5 plus 10, the small blind's bet is 5, the big blind's is
\* 10, every other bet is 0, each player's chips dropped by what they posted,
\* nobody has acted, there is no aggressor, the counter is 0 and the first to
\* act is the seat after the big blind
C40_StateAfterDeal ==
  [][(/\ hands' # hands
      /\ \A i \in Seats :
            chips[i] >= Posted(i, small_blind_idx', big_blind_idx')) =>
       /\ round' = "PreFlop"
       /\ community_cards' = 0
       /\ \A i \in Seats : ~folded'[i]
       /\ pot' = n * 1 + 5 + 10
       /\ current_bet'[small_blind_idx'] = 5
       /\ current_bet'[big_blind_idx'] = 10
       /\ \A i \in Seats \ {small_blind_idx', big_blind_idx'} :
             current_bet'[i] = 0
       /\ \A i \in Seats :
             chips'[i] = chips[i] - Posted(i, small_blind_idx', big_blind_idx')
       /\ players_acted_this_round' = <<>>
       /\ last_aggressor' = None
       /\ last_action_count' = 0
       /\ current_player_idx' = (big_blind_idx' + 1) % n]_vars

C40_Witness ==
  /\ n = MaxPlayers /\ hands = MaxHands /\ pc = "act"
  /\ round = "PreFlop" /\ last_action_count = 0
  /\ players_acted_this_round = <<>>
  /\ pot = n + 15
  /\ \A i \in Seats : chips[i] > 0
  /\ current_bet[big_blind_idx] = 10
  /\ current_player_idx = (big_blind_idx + 1) % n

====
